---- MODULE Spec2Model ----
(***************************************************************************)
(* A model of the streaming GeoJSON reader, class Reader of                *)
(* common_analysis/code/wildfire/Reader.py.                                *)
(*                                                                         *)
(* A file is a sequence of characters, each character a one-character      *)
(* string.  The reader's fields are the variables filename, filehandle,    *)
(* is_open, header_dict and feature_start_offset; the text stream the      *)
(* reader holds is the variable stream (cursor position and whether it has *)
(* been closed).  Every public method is one action; so are the consumers *)
(* of extract_subset.py: streaming_load_feature_count, which counts the    *)
(* features of a file, and the end of extract_samples_by_name, which       *)
(* writes into the header the reader handed out.                           *)
(***************************************************************************)
EXTENDS Integers, Sequences, FiniteSets, TLC

(***************************************************************************)
(* Text helpers: Python's str operations used by the reader.               *)
(***************************************************************************)

\* header.strip(" \t\n\r") strips exactly these characters.
StripChars == {" ", "\t", "\n", "\r"}

\* The characters json.loads skips between tokens.
JsonWs == {" ", "\t", "\n", "\r"}

Digits == {"0", "1", "2", "3", "4", "5", "6", "7", "8", "9"}

DigitValue(c) ==
  CASE c = "0" -> 0 [] c = "1" -> 1 [] c = "2" -> 2 [] c = "3" -> 3
    [] c = "4" -> 4 [] c = "5" -> 5 [] c = "6" -> 6 [] c = "7" -> 7
    [] c = "8" -> 8 [] c = "9" -> 9

\* tok occurs in buf starting at (1-based) position k.
OccursAt(buf, tok, k) ==
  /\ k >= 1
  /\ k + Len(tok) - 1 <= Len(buf)
  /\ \A j \in 1..Len(tok) : buf[k + j - 1] = tok[j]

\* Python's  tok in buf.
Contains(buf, tok) == \E k \in 1..Len(buf) : OccursAt(buf, tok, k)

\* Python's  buf.find(tok): the 0-based offset of the first occurrence, -1 if none.
Find(buf, tok) ==
  IF Contains(buf, tok)
  THEN (CHOOSE k \in 1..Len(buf) :
          /\ OccursAt(buf, tok, k)
          /\ \A j \in 1..(k - 1) : ~OccursAt(buf, tok, j)) - 1
  ELSE -1

\* Python's  s.strip(" \t\n\r").
RECURSIVE LStrip(_)
LStrip(s) == IF s /= <<>> /\ Head(s) \in StripChars THEN LStrip(Tail(s)) ELSE s

RECURSIVE RStrip(_)
RStrip(s) ==
  IF s /= <<>> /\ s[Len(s)] \in StripChars
  THEN RStrip(SubSeq(s, 1, Len(s) - 1))
  ELSE s

Strip(s) == RStrip(LStrip(s))

\* Python's  s.endswith(',').
EndsWithComma(s) == s /= <<>> /\ s[Len(s)] = ","

(***************************************************************************)
(* json.loads: a recursive-descent parser of JSON text.  It covers         *)
(* objects, arrays, strings and integers, which is every token the         *)
(* documents of this model can spell: their alphabet has no backslash, no  *)
(* ".", and never puts a letter next to a digit or spells true, false or   *)
(* null, so escapes, fractions, exponents and the three literals cannot    *)
(* occur in a text this parser is given.                                    *)
(*                                                                         *)
(* A parsed value is a record [t, v]: t the Python type, v the content.    *)
(* A dict is a function from its keys to their values (a repeated key      *)
(* keeps its last value, as in Python), so two dicts are equal whatever    *)
(* the order of their keys.                                                *)
(***************************************************************************)

None == [t |-> "None", v |-> 0]
JInt(n) == [t |-> "int", v |-> n]
JStr(s) == [t |-> "str", v |-> s]
JList(s) == [t |-> "list", v |-> s]
JDict(f) == [t |-> "dict", v |-> f]
EmptyDict == JDict(<<>>)

\* The result of parsing one value: ok, the value, and the index after it.
ParseFail == [ok |-> FALSE, val |-> None, rest |-> 0]
ParseOk(val, rest) == [ok |-> TRUE, val |-> val, rest |-> rest]

RECURSIVE SkipWs(_, _)
SkipWs(s, i) == IF i <= Len(s) /\ s[i] \in JsonWs THEN SkipWs(s, i + 1) ELSE i

\* The index of the closing quote of the string whose content starts at i,
\* 0 if the string is not closed or holds a control character.
RECURSIVE StringEnd(_, _)
StringEnd(s, i) ==
  IF i > Len(s) THEN 0
  ELSE IF s[i] = "\"" THEN i
  ELSE IF s[i] \in {"\t", "\n", "\r"} THEN 0
  ELSE StringEnd(s, i + 1)

\* s[i] is the opening quote.
ParseString(s, i) ==
  LET e == StringEnd(s, i + 1)
  IN IF e = 0 THEN ParseFail ELSE ParseOk(JStr(SubSeq(s, i + 1, e - 1)), e + 1)

RECURSIVE DigitsEnd(_, _)
DigitsEnd(s, i) == IF i <= Len(s) /\ s[i] \in Digits THEN DigitsEnd(s, i + 1) ELSE i

RECURSIVE DigitsValue(_, _, _, _)
DigitsValue(s, i, e, acc) ==
  IF i >= e THEN acc ELSE DigitsValue(s, i + 1, e, 10 * acc + DigitValue(s[i]))

\* -?(0|[1-9][0-9]*): a leading zero ends the number.
ParseNumber(s, i) ==
  LET neg == s[i] = "-"
      d == IF neg THEN i + 1 ELSE i
      e == IF d <= Len(s) /\ s[d] = "0" THEN d + 1 ELSE DigitsEnd(s, d)
      n == DigitsValue(s, d, e, 0)
  IN IF e = d THEN ParseFail ELSE ParseOk(JInt(IF neg THEN 0 - n ELSE n), e)

RECURSIVE ParseValue(_, _)
RECURSIVE ParseMembers(_, _, _)
RECURSIVE ParseElements(_, _, _)

\* The members of an object, i at the first character after "{" or ",";
\* acc is the dict so far.
ParseMembers(s, i, acc) ==
  LET k == SkipWs(s, i)
  IN IF k > Len(s) \/ s[k] /= "\"" THEN ParseFail
     ELSE LET key == ParseString(s, k)
              c == SkipWs(s, key.rest)
          IN IF ~key.ok \/ c > Len(s) \/ s[c] /= ":" THEN ParseFail
             ELSE LET val == ParseValue(s, SkipWs(s, c + 1))
                      e == SkipWs(s, val.rest)
                      now == (key.val.v :> val.val) @@ acc
                  IN IF ~val.ok \/ e > Len(s) THEN ParseFail
                     ELSE IF s[e] = "}" THEN ParseOk(JDict(now), e + 1)
                     ELSE IF s[e] = "," THEN ParseMembers(s, e + 1, now)
                     ELSE ParseFail

\* The elements of an array, i at the first character of an element.
ParseElements(s, i, acc) ==
  LET val == ParseValue(s, SkipWs(s, i))
      e == SkipWs(s, val.rest)
  IN IF ~val.ok \/ e > Len(s) THEN ParseFail
     ELSE IF s[e] = "]" THEN ParseOk(JList(Append(acc, val.val)), e + 1)
     ELSE IF s[e] = "," THEN ParseElements(s, e + 1, Append(acc, val.val))
     ELSE ParseFail

\* One JSON value starting at i (whitespace already skipped).
ParseValue(s, i) ==
  IF i > Len(s) THEN ParseFail
  ELSE IF s[i] = "{" THEN
    LET k == SkipWs(s, i + 1)
    IN IF k <= Len(s) /\ s[k] = "}" THEN ParseOk(EmptyDict, k + 1)
       ELSE ParseMembers(s, i + 1, <<>>)
  ELSE IF s[i] = "[" THEN
    LET k == SkipWs(s, i + 1)
    IN IF k <= Len(s) /\ s[k] = "]" THEN ParseOk(JList(<<>>), k + 1)
       ELSE ParseElements(s, i + 1, <<>>)
  ELSE IF s[i] = "\"" THEN ParseString(s, i)
  ELSE IF s[i] \in Digits \cup {"-"} THEN ParseNumber(s, i)
  ELSE ParseFail

\* json.loads(s): [ok, val]; ok is FALSE where json.loads raises
\* (no value, a malformed value, or text after the value).
JsonLoads(s) ==
  LET r == ParseValue(s, SkipWs(s, 1))
  IN IF r.ok /\ SkipWs(s, r.rest) = Len(s) + 1
     THEN [ok |-> TRUE, val |-> r.val]
     ELSE [ok |-> FALSE, val |-> None]

(***************************************************************************)
(* The files the reader is opened on.  A filename is a sequence of name    *)
(* parts, the empty sequence being Python's "" (and None: both are falsy). *)
(* The name of a document tells how its text is put together:              *)
(*   <<"doc", h, k, t, f1, .., fn>>  header text h, the features key       *)
(*        written as k, the array of the features f1..fn, trailer t;       *)
(*   <<"nest", n>>   one feature of n nested objects;                      *)
(*   <<"plain">>     an object with no features key;                       *)
(*   <<"inner">>     the features key inside a nested header object;       *)
(*   <<"pad", p, x>> p spaces, then a document of one feature whose string *)
(*        value is the letter n (x = "n") or the quoted word 'features'    *)
(*        (x = "q");                                                       *)
(*   <<"cut", c>>    a document that ends inside its first feature;        *)
(*   <<"missing">>   no such file.                                         *)
(***************************************************************************)

\* The longest features array of a generated document.
MaxFeatures == 2

Q == "\""

\* The tokens Reader.__read_geojson_header__ looks for.
KeyDoubleColon == <<Q, "f", "e", "a", "t", "u", "r", "e", "s", Q, ":">>
KeySingleColon == <<"'", "f", "e", "a", "t", "u", "r", "e", "s", "'", ":">>
KeySingle == <<"'", "f", "e", "a", "t", "u", "r", "e", "s", "'">>
KeyDouble == <<Q, "f", "e", "a", "t", "u", "r", "e", "s", Q>>

\* The dict key  features.
FeaturesKey == <<"f", "e", "a", "t", "u", "r", "e", "s">>

HeaderIds == {"h0", "h1"}
KeyIds == {"kd", "ks", "kw"}
TrailerIds == {"te", "tz"}
FeatureIds == {"fa", "fe", "fs"}

\* {   and    {"a":{"b":2} ,   (with a space before the { and after the comma)
HeaderText(h) ==
  CASE h = "h0" -> <<"{">>
    [] h = "h1" -> <<" ", "{", Q, "a", Q, ":", "{", Q, "b", Q, ":", "2", "}", " ", ",", " ">>

\* "features":   'features':   "features" :
KeyText(k) ==
  CASE k = "kd" -> KeyDoubleColon
    [] k = "ks" -> KeySingleColon
    [] k = "kw" -> KeyDouble \o <<" ", ":">>

\* ]}   and   ],"z":{"y":3}}
TrailerText(t) ==
  CASE t = "te" -> <<"]", "}">>
    [] t = "tz" -> <<"]", ",", Q, "z", Q, ":", "{", Q, "y", Q, ":", "3", "}", "}">>

\* {"a":{"c":12}}   {}   {"s":"}"}
FeatureText(f) ==
  CASE f = "fa" -> <<"{", Q, "a", Q, ":", "{", Q, "c", Q, ":", "1", "2", "}", "}">>
    [] f = "fe" -> <<"{", "}">>
    [] f = "fs" -> <<"{", Q, "s", Q, ":", Q, "}", Q, "}">>

\* The features fs[i..], separated by commas.
RECURSIVE JoinFeatures(_, _)
JoinFeatures(fs, i) ==
  IF i > Len(fs) THEN <<>>
  ELSE FeatureText(fs[i]) \o (IF i < Len(fs) THEN <<",">> ELSE <<>>)
       \o JoinFeatures(fs, i + 1)

\* n nested objects:  {}  for n = 1,  {"a":{}}  for n = 2, ...
RECURSIVE Nest(_)
Nest(n) == IF n <= 1 THEN <<"{", "}">> ELSE <<"{", Q, "a", Q, ":">> \o Nest(n - 1) \o <<"}">>

NestIds == {"10", "11", "12", "13"}
NestLevels(n) == CASE n = "10" -> 10 [] n = "11" -> 11 [] n = "12" -> 12 [] n = "13" -> 13

\* The numbers of spaces before a padded document: with none the document is
\* inside the first chunk the locator reads; with 75 the key is inside the
\* first chunk and the feature's string ends in the second; with 95 the key
\* lies across the end of the first chunk.
PadIds == {"0", "75", "95"}
PadWidth(p) == CASE p = "0" -> 0 [] p = "75" -> 75 [] p = "95" -> 95
PadFills == {"n", "q"}

Spaces(n) == [i \in 1..n |-> " "]

\* {"features":[{"x":"n"}]}   and   {"features":[{"x":"'features'"}]}
PadText(x) ==
  <<"{">> \o KeyDoubleColon \o <<"[", "{", Q, "x", Q, ":", Q>>
    \o (IF x = "q" THEN KeySingle ELSE <<"n">>) \o <<Q, "}", "]", "}">>

\* {"features":[{"s":"{"}   and   {"features":[{"a":{"c":12}
CutIds == {"cs", "ca"}
CutText(c) ==
  <<"{">> \o KeyDoubleColon \o <<"[">>
    \o (CASE c = "cs" -> <<"{", Q, "s", Q, ":", Q, "{", Q, "}">>
           [] c = "ca" -> <<"{", Q, "a", Q, ":", "{", Q, "c", Q, ":", "1", "2", "}">>)

FeatureLists == UNION {[1..n -> FeatureIds] : n \in 0..MaxFeatures}

DocNames ==
  {<<"doc", h, k, t>> \o fs : h \in HeaderIds, k \in KeyIds, t \in TrailerIds, fs \in FeatureLists}

NestNames == {<<"nest", n>> : n \in NestIds}

PadNames == {<<"pad", p, x>> : p \in PadIds, x \in PadFills}

CutNames == {<<"cut", c>> : c \in CutIds}

\* The files that exist.
FileNames == DocNames \cup NestNames \cup PadNames \cup CutNames \cup {<<"plain">>, <<"inner">>}

\* What open() may be given: the files, a file that does not exist, and no name.
OpenArgs == FileNames \cup {<<"missing">>, <<>>}

\* What open() is given while the reader is open: its argument is then only
\* recorded, so a few names stand for all.
ReopenArgs == {<<"plain">>, <<"doc", "h1", "kd", "te", "fa">>, <<"missing">>, <<>>}

\* The text of file fn.
FileText(fn) ==
  CASE fn[1] = "doc" ->
         HeaderText(fn[2]) \o KeyText(fn[3]) \o <<"[">>
           \o JoinFeatures(SubSeq(fn, 5, Len(fn)), 1) \o TrailerText(fn[4])
    [] fn[1] = "nest" ->
         <<"{">> \o KeyDoubleColon \o <<"[">> \o Nest(NestLevels(fn[2])) \o <<"]", "}">>
    [] fn[1] = "pad" -> Spaces(PadWidth(fn[2])) \o PadText(fn[3])
    [] fn[1] = "cut" -> CutText(fn[2])
    [] fn[1] = "plain" -> <<"{", Q, "a", Q, ":", "1", "}">>
    [] fn[1] = "inner" ->
         <<"{", Q, "a", Q, ":", "{">> \o KeyDoubleColon
           \o <<"[", "{", Q, "b", Q, ":", "1", "}", "]", "}", "}">>

(***************************************************************************)
(* The reader's state.                                                     *)
(***************************************************************************)

VARIABLES
  filename,             \* Reader.filename: the name given to open(), <<>> for ""
  filehandle,           \* Reader.filehandle: "None", or "file" (the stream below)
  is_open,              \* Reader.is_open
  header_dict,          \* Reader.header_dict: None or the parsed header
  feature_start_offset, \* Reader.feature_start_offset
  stream,               \* the text stream open() created: the file it reads,
                        \* its cursor, and whether it has been closed
  result,               \* the last call (or event) and what it returned or raised
  drain_start,          \* how the current round of next() calls began
  drained,              \* the outcomes of the next() calls of this round
  drain_done,           \* this round's next() has returned the sentinel
  first_drain           \* the complete round that began at open()

reader == <<filename, filehandle, is_open, header_dict, feature_start_offset>>
history == <<drain_start, drained, drain_done, first_drain>>
vars == <<filename, filehandle, is_open, header_dict, feature_start_offset,
          stream, result, drain_start, drained, drain_done, first_drain>>

NoStream == [name |-> <<>>, pos |-> 0, closed |-> TRUE]
NoDrain == [known |-> FALSE, seq |-> <<>>]

Exception(e) == [t |-> "Exception", v |-> e]

\* The record of a call: the method, its argument, whether the reader was open
\* when it was called, and what it returned or raised.
Outcome(op, arg, ret, val) ==
  [op |-> op, arg |-> arg, was_open |-> is_open, ret |-> ret, val |-> val]
Returned(op, arg, val) == Outcome(op, arg, "return", val)
Raised(op, arg, e) == Outcome(op, arg, "raise", Exception(e))

\* Reader.__init__ with no filename.
Init ==
  /\ filename = <<>>
  /\ filehandle = "None"
  /\ is_open = FALSE
  /\ header_dict = None
  /\ feature_start_offset = 0
  /\ stream = NoStream
  /\ result = Returned("init", <<>>, None)
  /\ drain_start = "none"
  /\ drained = <<>>
  /\ drain_done = FALSE
  /\ first_drain = NoDrain

(***************************************************************************)
(* The stream: f.read(n) at cursor pos returns Read(text, pos, n) and      *)
(* moves the cursor by its length.                                         *)
(***************************************************************************)

Min(a, b) == IF a <= b THEN a ELSE b

Read(text, pos, n) == SubSeq(text, pos + 1, Min(pos + n, Len(text)))

(***************************************************************************)
(* The header locator, Reader.__read_geojson_header__.                     *)
(***************************************************************************)

ChunkSize == 100
MaxChunks == 1200

\* The while loop: c is the chunk just read, pos the cursor after it, buf the
\* buffer before c is added, i the loop counter.  The result says whether the
\* key was found, the header text read back from the start of the file, and
\* the cursor the loop leaves.
RECURSIVE ScanChunks(_, _, _, _, _)
ScanChunks(text, pos, c, buf, i) ==
  IF c = <<>> \/ ~(i < MaxChunks)
  THEN [found |-> FALSE, header |-> <<>>, pos |-> pos]
  ELSE LET b == buf \o c
       IN IF Contains(b, KeyDoubleColon) \/ Contains(b, KeySingleColon)
          THEN LET single == Find(b, KeySingle)
                   index == IF single < 0 THEN Find(b, KeyDouble) ELSE single
                   header == Read(text, 0, index)
                   key == Read(text, Len(header), Len(KeySingle))
               IN [found |-> TRUE, header |-> header,
                   pos |-> Len(header) + Len(key)]
          ELSE LET c2 == Read(text, pos, ChunkSize)
               IN ScanChunks(text, pos + Len(c2), c2, b, i + 1)

\* The header text made a JSON object and parsed.
HeaderJson(header) ==
  LET stripped == Strip(header)
      cut == IF EndsWithComma(stripped)
             THEN SubSeq(stripped, 1, Len(stripped) - 1)
             ELSE stripped
  IN JsonLoads(cut \o <<"}">>)

\* The whole method on a fresh stream over text: whether it raises, the value
\* it returns, whether the key was found, and the cursor it leaves (which,
\* when the key was found, is what it stores as feature_start_offset).
read_geojson_header(text) ==
  LET c == Read(text, 0, ChunkSize)
      scan == ScanChunks(text, Len(c), c, <<>>, 0)
      parsed == IF scan.header /= <<>>
                THEN HeaderJson(scan.header)
                ELSE [ok |-> TRUE, val |-> None]
  IN [raised |-> ~parsed.ok,
      header_dict |-> parsed.val,
      found |-> scan.found,
      pos |-> scan.pos]

(***************************************************************************)
(* The feature extractor, Reader.__next_geojson_feature__ and              *)
(* Reader.__recurse_geojson_feature_dict__.                                *)
(***************************************************************************)

MaxDepth == 10

RECURSIVE recurse_geojson_feature_dict(_, _, _, _)
RECURSIVE RecurseLoop(_, _, _, _)

\* The while loop of the recursion: obj is the text captured so far at this
\* level, pos the cursor.
RecurseLoop(text, pos, obj, depth) ==
  IF pos >= Len(text)
  THEN [raised |-> FALSE, obj |-> obj, pos |-> pos]
  ELSE LET c == text[pos + 1]
       IN IF c = "{"
          THEN LET inner == recurse_geojson_feature_dict(text, pos + 1, <<c>>, depth + 1)
               IN IF inner.raised THEN inner
                  ELSE RecurseLoop(text, inner.pos, obj \o inner.obj, depth)
          ELSE IF c = "}"
          THEN [raised |-> FALSE, obj |-> obj \o <<c>>, pos |-> pos + 1]
          ELSE RecurseLoop(text, pos + 1, obj \o <<c>>, depth)

\* The guard compares the depth with MaxDepth - 1: one level too early.
recurse_guard_early(text, pos, buf, depth) ==
  IF depth > MaxDepth - 1
  THEN [raised |-> TRUE, obj |-> <<>>, pos |-> pos]
  ELSE RecurseLoop(text, pos, buf, depth)

recurse_geojson_feature_dict(text, pos, buf, depth) ==
  IF depth > MaxDepth
  THEN [raised |-> TRUE, obj |-> <<>>, pos |-> pos]
  ELSE RecurseLoop(text, pos, buf, depth)

\* The first loop of __next_geojson_feature__: the cursor after the first "{"
\* read from pos on, 0 if the stream ends first.
RECURSIVE SeekBrace(_, _)
SeekBrace(text, pos) ==
  IF pos >= Len(text) THEN 0
  ELSE IF text[pos + 1] = "{" THEN pos + 1
  ELSE SeekBrace(text, pos + 1)

\* The method with a capture that follows the JSON grammar, so that a brace
\* inside a string is not counted: it captures one JSON value from the "{".
next_geojson_feature_quoted(text, pos) ==
  LET start == SeekBrace(text, pos)
      parsed == ParseValue(text, start)
  IN IF start = 0
     THEN [ret |-> "return", val |-> None, pos |-> Len(text)]
     ELSE IF ~parsed.ok
     THEN [ret |-> "raise", val |-> Exception("JSONDecodeError"), pos |-> Len(text)]
     ELSE [ret |-> "return", val |-> parsed.val, pos |-> parsed.rest - 1]

\* The whole method on an open stream: what it returns or raises, and the
\* cursor it leaves.
next_geojson_feature(text, pos) ==
  LET start == SeekBrace(text, pos)
      feat == recurse_geojson_feature_dict(text, start, <<"{">>, 0)
      parsed == JsonLoads(feat.obj)
  IN IF start = 0
     THEN [ret |-> "return", val |-> None, pos |-> Len(text)]
     ELSE IF feat.raised
     THEN [ret |-> "raise", val |-> Exception("SuspectCorrupted"), pos |-> feat.pos]
     ELSE IF ~parsed.ok
     THEN [ret |-> "raise", val |-> Exception("JSONDecodeError"), pos |-> feat.pos]
     ELSE [ret |-> "return", val |-> parsed.val, pos |-> feat.pos]

(***************************************************************************)
(* The public methods.                                                     *)
(***************************************************************************)

\* A call that raises e before it changes anything.
RaiseUnchanged(op, arg, e) ==
  /\ result' = Raised(op, arg, e)
  /\ UNCHANGED <<reader, stream, history>>

\* open() from  self.filename = filename  on.
OpenFile(fn) ==
  /\ filename' = fn
  /\ IF fn \notin FileNames
     THEN \* the built-in open() raises
          /\ result' = Raised("open", fn, "OpenFailed")
          /\ UNCHANGED <<filehandle, is_open, header_dict, feature_start_offset,
                         stream, history>>
     ELSE LET h == read_geojson_header(FileText(fn))
          IN /\ filehandle' = "file"
             /\ is_open' = TRUE
             /\ stream' = [name |-> fn, pos |-> h.pos, closed |-> FALSE]
             /\ feature_start_offset' = IF h.found THEN h.pos ELSE feature_start_offset
             /\ header_dict' = IF h.raised THEN header_dict ELSE h.header_dict
             /\ result' = IF h.raised
                          THEN Raised("open", fn, "OpenFailed")
                          ELSE Returned("open", fn, None)
             /\ drain_start' = IF h.raised THEN "none" ELSE "open"
             /\ drained' = <<>>
             /\ drain_done' = FALSE
             /\ first_drain' = NoDrain

\* open() without the test of is_open.
open_unguarded(fn) ==
  IF fn = <<>>
  THEN RaiseUnchanged("open", fn, "InvalidArgument")
  ELSE OpenFile(fn)

open(fn) ==
  IF fn = <<>>
  THEN RaiseUnchanged("open", fn, "InvalidArgument")
  ELSE IF is_open
  THEN RaiseUnchanged("open", fn, "AlreadyOpen")
  ELSE OpenFile(fn)

\* header() without the test of is_open.
header_unguarded ==
  /\ result' = Returned("header", <<>>, header_dict)
  /\ UNCHANGED <<reader, stream, history>>

\* header() that reads the header again from the start of the stream, which
\* moves the cursor.
header_rereads ==
  IF ~is_open
  THEN RaiseUnchanged("header", <<>>, "NotOpen")
  ELSE /\ result' = Returned("header", <<>>, header_dict)
       /\ stream' = [stream EXCEPT !.pos = read_geojson_header(FileText(stream.name)).pos]
       /\ UNCHANGED <<reader, history>>

header ==
  IF ~is_open
  THEN RaiseUnchanged("header", <<>>, "NotOpen")
  ELSE /\ result' = Returned("header", <<>>, header_dict)
       /\ UNCHANGED <<reader, stream, history>>

\* next() that seeks back to feature_start_offset when it returns the sentinel.
next_auto_rewind ==
  IF ~is_open
  THEN RaiseUnchanged("next", <<>>, "NotOpen")
  ELSE IF stream.closed
  THEN RaiseUnchanged("next", <<>>, "ValueError")
  ELSE LET r == next_geojson_feature(FileText(stream.name), stream.pos)
           sentinel == r.ret = "return" /\ r.val = None
       IN /\ stream' = [stream EXCEPT !.pos = IF sentinel THEN feature_start_offset ELSE r.pos]
          /\ result' = Outcome("next", <<>>, r.ret, r.val)
          /\ drained' = IF drain_done \/ sentinel THEN drained ELSE Append(drained, r.val)
          /\ drain_done' = (drain_done \/ sentinel)
          /\ first_drain' = IF sentinel /\ ~drain_done /\ drain_start = "open"
                            THEN [known |-> TRUE, seq |-> drained]
                            ELSE first_drain
          /\ UNCHANGED <<reader, drain_start>>

next ==
  IF ~is_open
  THEN RaiseUnchanged("next", <<>>, "NotOpen")
  ELSE IF stream.closed
  THEN \* f.read(1) on a closed file raises ValueError
       RaiseUnchanged("next", <<>>, "ValueError")
  ELSE LET r == next_geojson_feature(FileText(stream.name), stream.pos)
           sentinel == r.ret = "return" /\ r.val = None
       IN /\ stream' = [stream EXCEPT !.pos = r.pos]
          /\ result' = Outcome("next", <<>>, r.ret, r.val)
          /\ drained' = IF drain_done \/ sentinel THEN drained ELSE Append(drained, r.val)
          /\ drain_done' = (drain_done \/ sentinel)
          /\ first_drain' = IF sentinel /\ ~drain_done /\ drain_start = "open"
                            THEN [known |-> TRUE, seq |-> drained]
                            ELSE first_drain
          /\ UNCHANGED <<reader, drain_start>>

\* close() from  self.filehandle.close()  on.
CloseFile ==
  /\ stream' = NoStream
  /\ filehandle' = "None"
  /\ filename' = <<>>
  /\ is_open' = FALSE
  /\ header_dict' = None
  /\ feature_start_offset' = 0
  /\ drain_start' = "none"
  /\ drained' = <<>>
  /\ drain_done' = FALSE
  /\ first_drain' = NoDrain

\* rewind() whose except clause re-raises without closing.
rewind_no_close ==
  IF ~is_open
  THEN /\ result' = Returned("rewind", <<>>, None)
       /\ UNCHANGED <<reader, stream, history>>
  ELSE IF stream.closed
  THEN RaiseUnchanged("rewind", <<>>, "ValueError")
  ELSE /\ stream' = [stream EXCEPT !.pos = feature_start_offset]
       /\ result' = Returned("rewind", <<>>, None)
       /\ drain_start' = "rewind"
       /\ drained' = <<>>
       /\ drain_done' = FALSE
       /\ UNCHANGED <<reader, first_drain>>

rewind ==
  IF ~is_open
  THEN /\ result' = Returned("rewind", <<>>, None)
       /\ UNCHANGED <<reader, stream, history>>
  ELSE IF stream.closed
  THEN \* seek() on a closed file raises ValueError: close(), then re-raise
       /\ CloseFile
       /\ result' = Raised("rewind", <<>>, "ValueError")
  ELSE /\ stream' = [stream EXCEPT !.pos = feature_start_offset]
       /\ result' = Returned("rewind", <<>>, None)
       /\ drain_start' = "rewind"
       /\ drained' = <<>>
       /\ drain_done' = FALSE
       /\ UNCHANGED <<reader, first_drain>>

\* close() that leaves header_dict and feature_start_offset as they are.
close_partial ==
  /\ result' = Returned("close", <<>>, None)
  /\ IF is_open
     THEN /\ stream' = NoStream
          /\ filehandle' = "None"
          /\ filename' = <<>>
          /\ is_open' = FALSE
          /\ drain_start' = "none"
          /\ drained' = <<>>
          /\ drain_done' = FALSE
          /\ first_drain' = NoDrain
          /\ UNCHANGED <<header_dict, feature_start_offset>>
     ELSE UNCHANGED <<reader, stream, history>>

close ==
  /\ result' = Returned("close", <<>>, None)
  /\ IF is_open
     THEN CloseFile
     ELSE UNCHANGED <<reader, stream, history>>

\* extract_samples_by_name of extract_subset.py, from the end of its loop on.
\* It has constructed the reader and its  while feature  loop has ended, which
\* on the documents of this model is at the first next(): that call returned
\* None or {}, both falsy (a feature with members has no 'attributes' key and
\* the loop body raises).  feature_list is then empty.  header() hands out the
\* reader's own header_dict, so  header['features'] = feature_list  assigns
\* into it; on None the assignment raises TypeError.
extract_samples_by_name ==
  /\ is_open
  /\ drain_start = "open"
  /\ result.op = "next"
  /\ result.ret = "return"
  /\ \/ result.val = None /\ drained = <<>>
     \/ result.val = EmptyDict /\ drained = <<EmptyDict>>
  /\ IF header_dict = None
     THEN RaiseUnchanged("extract_samples_by_name", <<>>, "TypeError")
     ELSE /\ header_dict' = JDict((FeaturesKey :> JList(<<>>)) @@ header_dict.v)
          /\ result' = Returned("extract_samples_by_name", <<>>, None)
          /\ UNCHANGED <<filename, filehandle, is_open, feature_start_offset,
                         stream, history>>

\* Python's  not feature  for what next() returns: None and {} are falsy.
Falsy(val) == val = None \/ val = EmptyDict

\* The loop  feature = next(); while feature: ...; feature = next()  of
\* streaming_load_feature_count, the cursor at pos: seen holds the features
\* the body has been run for.  It ends when next() raises or returns a falsy
\* value, last, with the cursor at pos.
RECURSIVE DrainLoop(_, _, _)
DrainLoop(text, pos, seen) ==
  CHOOSE end \in
    {IF r.ret = "raise" \/ Falsy(r.val)
     THEN [raised |-> r.ret = "raise", last |-> r.val, seen |-> seen, pos |-> r.pos]
     ELSE DrainLoop(text, r.pos, Append(seen, r.val)) :
       r \in {next_geojson_feature(text, pos)}} : TRUE

\* streaming_load_feature_count(fname) of extract_subset.py, on a reader it
\* constructs: Reader(fname), which opens the file if a name is given;
\* header(); the loop that counts the features.  It returns nothing and
\* prints feature_count, which the result records.  It does not close the
\* reader.  The reader being its own, the function starts from the state
\* __init__ leaves, on which no method has been called yet.
streaming_load_feature_count(fn) ==
  /\ result.op = "init"
  /\ ~is_open
  /\ IF fn = <<>>
     THEN \* no open(); header() raises
          /\ result' = Raised("streaming_load_feature_count", fn, "NotOpen")
          /\ filename' = fn
          /\ UNCHANGED <<filehandle, is_open, header_dict, feature_start_offset,
                         stream, history>>
     ELSE IF fn \notin FileNames
     THEN /\ result' = Raised("streaming_load_feature_count", fn, "OpenFailed")
          /\ filename' = fn
          /\ UNCHANGED <<filehandle, is_open, header_dict, feature_start_offset,
                         stream, history>>
     ELSE \E text \in {FileText(fn)} :
          \E h \in {read_geojson_header(text)} :
          \E d \in {DrainLoop(text, h.pos, <<>>)} :
          \E returned \in {IF d.raised \/ d.last = EmptyDict
                           THEN Append(d.seen, d.last)
                           ELSE d.seen} :
             /\ filename' = fn
             /\ filehandle' = "file"
             /\ is_open' = TRUE
             /\ feature_start_offset' = IF h.found THEN h.pos ELSE feature_start_offset
             /\ first_drain' = IF ~h.raised /\ ~d.raised /\ d.last = None
                               THEN [known |-> TRUE, seq |-> returned]
                               ELSE NoDrain
             /\ IF h.raised
                THEN /\ result' = Raised("streaming_load_feature_count", fn, "OpenFailed")
                     /\ stream' = [name |-> fn, pos |-> h.pos, closed |-> FALSE]
                     /\ drain_start' = "none"
                     /\ drained' = <<>>
                     /\ drain_done' = FALSE
                     /\ UNCHANGED header_dict
                ELSE /\ result' = IF d.raised
                                  THEN Outcome("streaming_load_feature_count", fn, "raise", d.last)
                                  ELSE Returned("streaming_load_feature_count", fn,
                                                JInt(Len(d.seen)))
                     /\ stream' = [name |-> fn, pos |-> d.pos, closed |-> FALSE]
                     /\ header_dict' = h.header_dict
                     /\ drain_start' = "open"
                     /\ drained' = returned
                     /\ drain_done' = (~d.raised /\ d.last = None)

\* The stream the reader holds stops being usable behind the reader's back
\* (its file object is closed): from then on read() and seek() raise.
StreamInvalidated ==
  /\ is_open
  /\ ~stream.closed
  /\ stream' = [stream EXCEPT !.closed = TRUE]
  /\ result' = Returned("invalidated", <<>>, None)
  /\ UNCHANGED <<reader, history>>

Next ==
  \/ \E fn \in (IF is_open THEN ReopenArgs ELSE OpenArgs) : open(fn)
  \/ header
  \/ next
  \/ rewind
  \/ close
  \/ extract_samples_by_name
  \/ \E fn \in OpenArgs : streaming_load_feature_count(fn)
  \/ StreamInvalidated

Spec == Init /\ [][Next]_vars

(***************************************************************************)
(* What a whole-document parse says of a file: the reference the reader's  *)
(* answers are compared with.                                              *)
(***************************************************************************)

\* The keys of the top-level object of s, in the order of the text; i is
\* just after the "{" or "," before a member.  Used on texts that parse.
RECURSIVE KeysFrom(_, _)
KeysFrom(s, i) ==
  LET key == ParseString(s, SkipWs(s, i))
      val == ParseValue(s, SkipWs(s, SkipWs(s, key.rest) + 1))
      e == SkipWs(s, val.rest)
  IN IF s[e] = "," THEN <<key.val.v>> \o KeysFrom(s, e + 1) ELSE <<key.val.v>>

TopKeys(s) ==
  LET i == SkipWs(s, 1)
  IN IF s[SkipWs(s, i + 1)] = "}" THEN <<>> ELSE KeysFrom(s, i + 1)

\* A well-formed input: a JSON object whose last key is its only features
\* key, bound to an array of objects.
WellFormed(s) ==
  LET d == JsonLoads(s)
  IN /\ d.ok
     /\ d.val.t = "dict"
     /\ LET keys == TopKeys(s)
        IN /\ keys /= <<>>
           /\ keys[Len(keys)] = FeaturesKey
           /\ \A i \in 1..(Len(keys) - 1) : keys[i] /= FeaturesKey
     /\ d.val.v[FeaturesKey].t = "list"
     /\ \A i \in 1..Len(d.val.v[FeaturesKey].v) : d.val.v[FeaturesKey].v[i].t = "dict"

\* The elements of the features array of a well-formed input.
SourceFeatures(s) == JsonLoads(s).val.v[FeaturesKey].v

\* The top-level keys and values of a well-formed input without features.
SourceHeader(s) ==
  LET d == JsonLoads(s).val.v
  IN JDict([k \in (DOMAIN d) \ {FeaturesKey} |-> d[k]])

\* The file the reader is open on.
OpenText == FileText(stream.name)

\* The reader is open through an open() that returned normally.
OpenedOk == is_open /\ drain_start \in {"open", "rewind"}

\* a is a prefix of b.
IsPrefix(a, b) == Len(a) <= Len(b) /\ \A i \in 1..Len(a) : a[i] = b[i]

\* The larger of the numbers of the non-empty sequence ns.
RECURSIVE MaxOf(_)
MaxOf(ns) ==
  IF Len(ns) = 1 THEN ns[1]
  ELSE LET m == MaxOf(Tail(ns)) IN IF ns[1] >= m THEN ns[1] ELSE m

\* How many objects deep a parsed value nests: 1 for {} and {"a":1}.
RECURSIVE DictDepth(_)
DictDepth(val) ==
  IF val.t = "dict"
  THEN 1 + (IF DOMAIN val.v = {} THEN 0
            ELSE LET keys == CHOOSE ks \in [1..Cardinality(DOMAIN val.v) -> DOMAIN val.v] :
                               \A k \in DOMAIN val.v : \E i \in DOMAIN ks : ks[i] = k
                 IN MaxOf([i \in DOMAIN keys |-> DictDepth(val.v[keys[i]])]))
  ELSE IF val.t = "list"
  THEN IF val.v = <<>> THEN 0 ELSE MaxOf([i \in DOMAIN val.v |-> DictDepth(val.v[i])])
  ELSE 0

(***************************************************************************)
(* The claims.                                                             *)
(***************************************************************************)

\* C1: for a well-formed input (a top-level object whose header keys precede
\* a features array of objects, none nested deeper than the depth guard
\* allows), the next() calls made after open() return the elements of the
\* features array in order, nothing else and nothing twice, and then the
\* sentinel: what the round begun at open() has returned so far is a prefix
\* of the array, and the whole array once the sentinel has been returned.
C1_NextReproducesFeatures ==
  (OpenedOk /\ drain_start = "open" /\ WellFormed(OpenText)
     /\ \A i \in 1..Len(SourceFeatures(OpenText)) :
          DictDepth(SourceFeatures(OpenText)[i]) <= MaxDepth)
  => /\ IsPrefix(drained, SourceFeatures(OpenText))
     /\ drain_done => drained = SourceFeatures(OpenText)

\* C2: on a reader open on a well-formed input, the round of next() calls
\* begun by a rewind() returns what the first complete round after open()
\* returned: a prefix of it so far, and all of it once the sentinel has been
\* returned.
C2_RewindRepeatsFirstDrain ==
  (OpenedOk /\ drain_start = "rewind" /\ first_drain.known /\ WellFormed(OpenText))
  => /\ IsPrefix(drained, first_drain.seq)
     /\ drain_done => drained = first_drain.seq

\* C3: after a successful open() of a well-formed input, every header() call
\* returns the document's top-level keys and values without the features key.
C3_HeaderIsDocumentWithoutFeatures ==
  (OpenedOk /\ result.op = "header" /\ WellFormed(OpenText))
  => result = Returned("header", <<>>, SourceHeader(OpenText))

\* C4: on a closed reader next() and header() raise NotOpen and rewind()
\* returns normally, and none of the three changes a field of the reader or
\* the stream.
C4_ClosedReaderCalls ==
  [][(~is_open /\ result'.op \in {"next", "header", "rewind"})
       => /\ result'.op \in {"next", "header"}
               => result' = Raised(result'.op, <<>>, "NotOpen")
          /\ result'.op = "rewind" => result' = Returned("rewind", <<>>, None)
          /\ UNCHANGED <<reader, stream>>]_vars

\* A closed reader (closed since a failed open(), which the unchanged filename
\* shows) has just refused a next().
C4_Witness ==
  /\ ~is_open
  /\ filename = <<"missing">>
  /\ result = Raised("next", <<>>, "NotOpen")

\* C5: open() with a path, on a reader that is already open, raises AlreadyOpen
\* and changes nothing: the filename, the handle, the stream and its cursor,
\* the header and feature_start_offset are as before the call.
C5_OpenWhileOpen ==
  [][(is_open /\ result'.op = "open" /\ result'.arg /= <<>>)
       => /\ result' = Raised("open", result'.arg, "AlreadyOpen")
          /\ UNCHANGED <<reader, stream, history>>]_vars

\* In the middle of an iteration, a second open() with the path of another
\* file has just been refused.
C5_Witness ==
  /\ is_open
  /\ result.op = "open"
  /\ result.was_open
  /\ result.val = Exception("AlreadyOpen")
  /\ result.arg /= <<>>
  /\ result.arg /= filename
  /\ drained /= <<>>
  /\ ~drain_done

\* The highest value the nesting counter takes from index i on, the counter
\* being at n there, until it is back at 0 or the text ends: "{" adds one,
\* "}" takes one off, whatever else the character is part of.
RECURSIVE CounterPeak(_, _, _, _)
CounterPeak(text, i, n, peak) ==
  IF n = 0 \/ i > Len(text) THEN peak
  ELSE IF text[i] = "{" THEN CounterPeak(text, i + 1, n + 1, IF n + 1 > peak THEN n + 1 ELSE peak)
  ELSE IF text[i] = "}" THEN CounterPeak(text, i + 1, n - 1, peak)
  ELSE CounterPeak(text, i + 1, n, peak)

\* The highest value of the nesting counter, which starts at 1 on the first
\* "{" after the cursor, over the capture a next() at pos begins; 0 if there
\* is no "{".
NestingPeak(text, pos) ==
  IF SeekBrace(text, pos) = 0 THEN 0
  ELSE CounterPeak(text, SeekBrace(text, pos) + 1, 1, 1)

\* C6, as amended: next() raises the corruption error exactly when the nesting
\* counter (1 on the feature's opening "{") exceeds 11, which is depth > 10
\* with the depth 0 on the opening "{"; it then returns no value.
C6_DepthGuard ==
  [][(is_open /\ ~stream.closed /\ result'.op = "next")
       => (NestingPeak(OpenText, stream.pos) > MaxDepth + 1
             <=> result' = Raised("next", <<>>, "SuspectCorrupted"))]_vars

\* C6, as claimed: a capture whose nesting counter exceeds 10 makes next()
\* fail.
C6_AsClaimed ==
  [][(is_open /\ ~stream.closed /\ result'.op = "next")
       => (NestingPeak(OpenText, stream.pos) > MaxDepth => result'.ret = "raise")]_vars

\* next() has just refused a feature of 12 nested objects.
C6_Witness ==
  /\ is_open
  /\ stream.name = <<"nest", "12">>
  /\ result = Raised("next", <<>>, "SuspectCorrupted")

\* C7: an open() that raises on a closed reader leaves it closed, with no
\* stream handle held.
C7_FailedOpenLeavesClosed ==
  [][(~is_open /\ result'.op = "open" /\ result'.ret = "raise")
       => (~is_open' /\ filehandle' = "None")]_vars

\* C8: close() on an open reader closes the stream and puts every field back
\* to its value at construction; close() on a closed reader changes nothing.
C8_CloseResets ==
  [][result'.op = "close"
       => IF is_open
          THEN /\ reader' = <<<<>>, "None", FALSE, None, 0>>
               /\ stream' = NoStream
          ELSE UNCHANGED <<reader, stream>>]_vars

\* An open reader that had read a header and set its offset has just been
\* closed.
C8_Witness ==
  /\ result = [op |-> "close", arg |-> <<>>, was_open |-> TRUE,
               ret |-> "return", val |-> None]
  /\ ~is_open
  /\ header_dict = None
  /\ feature_start_offset = 0

\* C9: a rewind() whose seek fails raises the failure, and the reader is
\* closed by then: stream released, header and offset discarded.  No state
\* that follows a rewind() that raised has is_open true.
C9_FailedRewindCloses ==
  [][result'.op = "rewind"
       => /\ (is_open /\ stream.closed)
               => /\ result' = Raised("rewind", <<>>, "ValueError")
                  /\ reader' = <<<<>>, "None", FALSE, None, 0>>
                  /\ stream' = NoStream
          /\ result'.ret = "raise" => ~is_open']_vars

\* A rewind() on an open reader has just raised.
C9_Witness ==
  /\ result = [op |-> "rewind", arg |-> <<>>, was_open |-> TRUE,
               ret |-> "raise", val |-> Exception("ValueError")]
  /\ ~is_open

\* The features key, as the locator looks for it, is nowhere in the text.
KeyAbsent(text) == ~Contains(text, KeyDoubleColon) /\ ~Contains(text, KeySingleColon)

\* C10: when the features key is not found, open() succeeds, header() returns
\* an empty mapping and feature_start_offset is 0.
C10_NoKeyGivesEmptyHeader ==
  (is_open /\ KeyAbsent(OpenText))
  => /\ OpenedOk
     /\ feature_start_offset = 0
     /\ result.op = "header" => result = Returned("header", <<>>, EmptyDict)

\* C11: from open() to close() the value header() returns does not change,
\* whatever the reader or a consumer that obtained it through header() does:
\* no step of an open reader that leaves it open changes header_dict.
C11_HeaderImmutable ==
  [][(is_open /\ is_open') => header_dict' = header_dict]_vars

\* C12: right after every open() that returns normally, the key found or not,
\* the cursor is at feature_start_offset: a rewind() would leave it where it
\* is, and the first next() gives the same with or without that rewind().
C12_OpenLeavesCursorAtOffset ==
  [][(result'.op = "open" /\ result'.ret = "return")
       => /\ stream'.pos = feature_start_offset'
          /\ next_geojson_feature(FileText(stream'.name), stream'.pos)
               = next_geojson_feature(FileText(stream'.name), feature_start_offset')]_vars

\* The index of the "}" that brings the nesting counter back to 0, the counter
\* being at n before index i; 0 if the text ends first.
RECURSIVE CounterClose(_, _, _)
CounterClose(text, i, n) ==
  IF i > Len(text) THEN 0
  ELSE IF text[i] = "{" THEN CounterClose(text, i + 1, n + 1)
  ELSE IF text[i] = "}" THEN (IF n = 1 THEN i ELSE CounterClose(text, i + 1, n - 1))
  ELSE CounterClose(text, i + 1, n)

\* The index of the first "{" at or after the cursor (0 if none) and of the
\* "}" that closes the capture begun there (0 if none).
CaptureFirst(text, pos) == SeekBrace(text, pos)
CaptureLast(text, pos) ==
  IF SeekBrace(text, pos) = 0 THEN 0
  ELSE CounterClose(text, SeekBrace(text, pos) + 1, 1)

\* C13: when next() returns a feature, what it parsed is the text from the
\* first "{" at or after the cursor through the "}" that brings the nesting
\* counter back to 0, and the cursor is left right after that "}".
C13_CaptureIsExact ==
  [][(is_open /\ ~stream.closed /\ result'.op = "next"
        /\ result'.ret = "return" /\ result'.val /= None)
       => /\ CaptureLast(OpenText, stream.pos) /= 0
          /\ result'.val
               = JsonLoads(SubSeq(OpenText, CaptureFirst(OpenText, stream.pos),
                                  CaptureLast(OpenText, stream.pos))).val
          /\ stream'.pos = CaptureLast(OpenText, stream.pos)]_vars

\* C14: on an open reader whose stream is usable, a next() that finds no "{"
\* between the cursor and the end of the stream returns the sentinel and
\* leaves the reader open; and once a next() has returned the sentinel, every
\* next() returns it until a rewind() or a close().
C14_SentinelIsSticky ==
  [][(is_open /\ ~stream.closed /\ result'.op = "next")
       => /\ (\A i \in (stream.pos + 1)..Len(OpenText) : OpenText[i] /= "{")
               => (result' = Returned("next", <<>>, None) /\ is_open')
          /\ drain_done => result' = Returned("next", <<>>, None)]_vars

\* After two features, next() has returned the sentinel with the cursor at
\* the end of the file.
C14_Witness ==
  /\ is_open
  /\ drain_done
  /\ Len(drained) = 2
  /\ stream.pos = Len(OpenText)
  /\ result = Returned("next", <<>>, None)

\* Where the capture a next() at pos begins stops by the count of brace
\* characters alone: at the "}" that brings the counter back to 0, or at the
\* end of the text.
CaptureEnd(text, pos) ==
  IF CaptureLast(text, pos) = 0 THEN Len(text) ELSE CaptureLast(text, pos)

\* C15: the capture of next() counts brace characters and nothing else, a
\* brace inside a quoted string like any other: whenever next() finds a "{"
\* and the depth guard does not trip, the cursor is left where the count of
\* "{" and "}" characters says, and what next() returns or raises is the
\* parse of the text up to there.
C15_BraceCountingIsByteLevel ==
  [][(is_open /\ ~stream.closed /\ result'.op = "next"
        /\ CaptureFirst(OpenText, stream.pos) /= 0
        /\ NestingPeak(OpenText, stream.pos) <= MaxDepth + 1)
       => LET captured == SubSeq(OpenText, CaptureFirst(OpenText, stream.pos),
                                 CaptureEnd(OpenText, stream.pos))
          IN /\ stream'.pos = CaptureEnd(OpenText, stream.pos)
             /\ result' = IF JsonLoads(captured).ok
                          THEN Returned("next", <<>>, JsonLoads(captured).val)
                          ELSE Raised("next", <<>>, "JSONDecodeError")]_vars

\* On the document {"features":[{"s":"}"}]} the capture of the only feature
\* has ended at the "}" inside the string, two characters before the
\* feature's closing brace, and next() has raised.
C15_Witness ==
  /\ is_open
  /\ stream.name = <<"doc", "h0", "kd", "te", "fs">>
  /\ stream.pos = 20
  /\ OpenText[20] = "}"
  /\ OpenText[22] = "}"
  /\ ParseValue(OpenText, 14).rest = 23
  /\ result = Raised("next", <<>>, "JSONDecodeError")

\* The offset of the first features key, quoted either way and followed by
\* its colon, in a text that holds one: the key the locator's test matches.
MatchedKeyOffset(text) ==
  LET d == Find(text, KeyDoubleColon)
      q == Find(text, KeySingleColon)
  IN IF d < 0 THEN q ELSE IF q < 0 THEN d ELSE Min(d, q)

\* C16: when the locator matches, the header is the text before the key that
\* matched and feature_start_offset is the position right after that key
\* token, its offset plus the 10 characters of the quoted word: open()
\* returns with the parse of that header text, or raises if the text does
\* not parse.
C16_OffsetOfMatchedKey ==
  [][(~is_open /\ result'.op = "open" /\ result'.arg \in FileNames
        /\ ~KeyAbsent(FileText(result'.arg)))
       => LET text == FileText(result'.arg)
              before == SubSeq(text, 1, MatchedKeyOffset(text))
          IN /\ feature_start_offset' = MatchedKeyOffset(text) + Len(KeyDouble)
             /\ stream'.pos = feature_start_offset'
             /\ IF before = <<>>
                THEN result'.ret = "return" /\ header_dict' = None
                ELSE IF HeaderJson(before).ok
                THEN result'.ret = "return" /\ header_dict' = HeaderJson(before).val
                ELSE result'.ret = "raise"]_vars

\* C17: the locator's result does not depend on where the chunk boundaries
\* fall: opening a document behind w spaces gives what the locator gives on
\* the document without them, moved by w: open() raises in both or in
\* neither, the header is the same, and feature_start_offset is w further.
\* (With 75 spaces the key is inside the first chunk, with 95 it lies across
\* the boundary between the first two.)
C17_ChunkAlignmentIndependent ==
  [][(~is_open /\ result'.op = "open" /\ result'.arg \in PadNames)
       => LET unpadded == read_geojson_header(PadText(result'.arg[3]))
          IN /\ feature_start_offset' = unpadded.pos + PadWidth(result'.arg[2])
             /\ (result'.ret = "raise") <=> unpadded.raised
             /\ ~unpadded.raised => header_dict' = unpadded.header_dict]_vars

\* C18: in every reachable state is_open is true exactly when a stream handle
\* is held, and a closed reader has every field at its initial value: no
\* handle, empty filename, no header, offset 0.
C18_ClosedHoldsInitialValues ==
  /\ is_open <=> filehandle /= "None"
  /\ ~is_open => /\ filehandle = "None"
                 /\ filename = <<>>
                 /\ header_dict = None
                 /\ feature_start_offset = 0

\* C19: on an open reader header() changes neither a field of the reader nor
\* the stream; next(), and a rewind() that returns, change nothing but the
\* cursor of the stream: filename, handle, open state, header and
\* feature_start_offset are as before.
C19_FrameConditions ==
  [][(is_open /\ result'.op \in {"header", "next", "rewind"})
       => /\ result'.op = "header" => UNCHANGED <<reader, stream>>
          /\ (result'.op = "next" \/ (result'.op = "rewind" /\ result'.ret = "return"))
               => /\ UNCHANGED reader
                  /\ stream' = [stream EXCEPT !.pos = stream'.pos]]_vars

\* After a complete round of two features, a rewind() has returned: the
\* cursor is back at feature_start_offset and the header read at open() is
\* still there.
C19_Witness ==
  /\ is_open
  /\ result = Returned("rewind", <<>>, None)
  /\ first_drain.known
  /\ Len(first_drain.seq) = 2
  /\ stream.pos = feature_start_offset
  /\ feature_start_offset > 0
  /\ header_dict /= EmptyDict
  /\ WellFormed(OpenText)
  /\ header_dict = SourceHeader(OpenText)

\* C20: a next() whose capture has begun (a "{" was found) and for which the
\* stream ends before the nesting counter is back at 0 raises an error: it
\* returns neither the sentinel nor a feature.
C20_EndOfStreamInCapture ==
  [][(is_open /\ ~stream.closed /\ result'.op = "next"
        /\ CaptureFirst(OpenText, stream.pos) /= 0
        /\ CaptureLast(OpenText, stream.pos) = 0)
       => result'.ret = "raise"]_vars

\* A document that parses as an object with a top-level key "features",
\* written in double quotes, bound to an array; other keys may follow it.
HasFeaturesArray(s) ==
  /\ JsonLoads(s).ok
  /\ JsonLoads(s).val.t = "dict"
  /\ FeaturesKey \in DOMAIN JsonLoads(s).val.v
  /\ JsonLoads(s).val.v[FeaturesKey].t = "list"
  /\ Contains(s, KeyDouble)

\* In such a document (no earlier text of which spells the quoted key), the
\* number of characters up to and including the "]" that closes the array.
ArrayEnd(s) ==
  LET colon == SkipWs(s, Find(s, KeyDouble) + Len(KeyDouble) + 1)
  IN ParseValue(s, SkipWs(s, colon + 1)).rest - 1

\* C21: next() returns nothing but elements of the features array: a value it
\* returns is an element of the array, and once the cursor is past the "]"
\* that closes the array next() returns the sentinel, whatever object
\* follows in the document.
C21_OnlyArrayElements ==
  [][(OpenedOk /\ ~stream.closed /\ result'.op = "next" /\ HasFeaturesArray(OpenText))
       => /\ (result'.ret = "return" /\ result'.val /= None)
               => \E i \in 1..Len(SourceFeatures(OpenText)) :
                    SourceFeatures(OpenText)[i] = result'.val
          /\ stream.pos >= ArrayEnd(OpenText)
               => result' = Returned("next", <<>>, None)]_vars

\* C22: next() returns an empty value only when no features remain, so the
\* loop of the consumers visits every element of the features array: on a
\* well-formed document whose key the locator finds, a falsy value returned
\* by next() is the sentinel, and streaming_load_feature_count, when it
\* returns, has counted as many features as the array has elements.
C22_DrainLoopVisitsEveryFeature ==
  (is_open /\ result.ret = "return" /\ WellFormed(OpenText) /\ ~KeyAbsent(OpenText))
  => /\ (result.op = "next" /\ Falsy(result.val)) => result.val = None
     /\ result.op = "streaming_load_feature_count"
          => result.val = JInt(Len(SourceFeatures(OpenText)))

====
